---- MODULE Spec2Model ----
(***************************************************************************)
(* AzureCosmosDbNoSql (mem0/vector_stores/azure_cosmosdb_nosql.py): the    *)
(* vector-store adapter over one Cosmos DB database and one container.     *)
(* The database account is the environment: its containers and items are   *)
(* the state, every public method of the adapter is one action.            *)
(***************************************************************************)
EXTENDS Integers, Sequences, FiniteSets, TLC

\* ------------------------------------------------------------------------
\* Bounds of the model
\* ------------------------------------------------------------------------
MaxBatch == 2      \* longest batch handed to insert
MaxLimit == 2      \* largest limit handed to search / largest TOP of a query

\* ------------------------------------------------------------------------
\* Python values
\* ------------------------------------------------------------------------
PyStr(s) == [ty |-> "str", v |-> s]
PyInt(s) == [ty |-> "int", v |-> s]
PyNone == [ty |-> "none", v |-> "None"]

EmptyDict == [k \in {} |-> PyNone]

\* the three payload keys that are mirrored to top-level document fields
PromotedFields == <<"user_id", "run_id", "agent_id">>

\* key order of a dict (Python keeps insertion order; the payloads below are
\* all built in this order)
KeyOrder == <<"user_id", "run_id", "agent_id", "data">>

Ids == {"a", "b"}
Vectors == {<<1, 2>>}
Payloads ==
    { EmptyDict,
      ("user_id" :> PyStr("u1")) @@ ("data" :> PyStr("7")),
      ("agent_id" :> PyStr("g1")) @@ ("data" :> PyInt("7")) }

\* dict.get(key): the value, or None when the key is missing
DictGet(d, k) == IF k \in DOMAIN d THEN d[k] ELSE PyNone

\* truthiness of update's optional payload: None and {} are falsy
TruthyDict(x) == x # PyNone /\ DOMAIN x # {}

\* truthiness of update's optional vector: None and [] are falsy (both are
\* written << >> here)
NoVector == << >>
TruthyVec(x) == Len(x) > 0

\* ------------------------------------------------------------------------
\* JSON text: a sequence of tokens
\* ------------------------------------------------------------------------
JsonValue(x) ==
    IF x.ty = "str" THEN [kind |-> "string", text |-> x.v]
    ELSE IF x.ty = "int" THEN [kind |-> "number", text |-> x.v]
    ELSE [kind |-> "null", text |-> "null"]

RECURSIVE DumpKeys(_, _)
DumpKeys(d, i) ==
    IF i > Len(KeyOrder) THEN << >>
    ELSE IF KeyOrder[i] \in DOMAIN d
         THEN << [kind |-> "key", text |-> KeyOrder[i]], JsonValue(d[KeyOrder[i]]) >>
              \o DumpKeys(d, i + 1)
         ELSE DumpKeys(d, i + 1)

json_dumps(d) == <<[kind |-> "{", text |-> "{"]>> \o DumpKeys(d, 1)
                    \o <<[kind |-> "}", text |-> "}"]>>

PyValue(t) ==
    IF t.kind = "string" THEN PyStr(t.text)
    ELSE IF t.kind = "number" THEN PyInt(t.text)
    ELSE PyNone

\* the text is an object: "{" (key value)* "}"
IsJsonObject(text) ==
    /\ Len(text) >= 2
    /\ Len(text) % 2 = 0
    /\ text[1].kind = "{"
    /\ text[Len(text)].kind = "}"
    /\ \A i \in 2..(Len(text) - 1) :
          IF i % 2 = 0 THEN text[i].kind = "key"
          ELSE text[i].kind \in {"string", "number", "null"}

json_loads(text) ==
    LET keyPos == { i \in 2..(Len(text) - 1) : i % 2 = 0 }
    IN  [k \in { text[i].text : i \in keyPos } |->
            PyValue(text[(CHOOSE i \in keyPos : text[i].text = k) + 1])]

\* mem0.memory.utils.extract_json: hands the stored JSON text to the parser
extract_json(text) == text

\* ------------------------------------------------------------------------
\* Documents and the container's item operations
\* ------------------------------------------------------------------------
RECURSIVE Promote(_, _)
Promote(payload, i) ==
    IF i > Len(PromotedFields) THEN EmptyDict
    ELSE IF PromotedFields[i] \in DOMAIN payload
         THEN (PromotedFields[i] :> payload[PromotedFields[i]]) @@ Promote(payload, i + 1)
         ELSE Promote(payload, i + 1)

\* variant: the promoted keys are moved out of the payload, not copied
GenerateDocumentMoved(vector, payload, id) ==
    ("id" :> id) @@ ("vector" :> vector)
        @@ ("payload" :> json_dumps(
                [k \in DOMAIN payload \ {PromotedFields[i] : i \in 1..Len(PromotedFields)}
                    |-> payload[k]]))
        @@ Promote(payload, 1)

_generate_document(vector, payload, id) ==
    ("id" :> id) @@ ("vector" :> vector) @@ ("payload" :> json_dumps(payload))
        @@ Promote(payload, 1)

\* the document update() builds
UpdateDocument(vector_id, vector, payload) ==
    ("id" :> vector_id)
        @@ (IF TruthyVec(vector) THEN ("vector" :> vector) ELSE EmptyDict)
        @@ (IF TruthyDict(payload)
            THEN ("payload" :> json_dumps(payload))
                 @@ [f \in {PromotedFields[i] : i \in 1..Len(PromotedFields)} |->
                        DictGet(payload, f)]
            ELSE EmptyDict)

ItemIds(its) == { d["id"] : d \in its }

\* variant: the document is added without replacing the one of the same id
AddItem(its, doc) == its \cup {doc}

\* container.upsert_item: insert-or-replace keyed by id
UpsertItem(its, doc) == { d \in its : d["id"] # doc["id"] } \cup {doc}

\* container.delete_item
DeleteItem(its, id) == { d \in its : d["id"] # id }

\* container.read_item
ReadItem(its, id) == CHOOSE d \in its : d["id"] = id

\* the order in which the backend enumerates a set of documents
RECURSIVE SeqOf(_)
SeqOf(S) ==
    IF S = {} THEN << >>
    ELSE LET x == CHOOSE x \in S : TRUE IN <<x>> \o SeqOf(S \ {x})

\* OutputData(id, score, payload); score is "None" or a number
OutputData(id, score, payload) == [id |-> id, score |-> score, payload |-> payload]

\* return values and exceptions of a call
Return(kind, val) == [kind |-> kind, val |-> val]
ReturnNone == Return("None", << >>)
Raise(exc) == Return("raise", exc)

\* ------------------------------------------------------------------------
\* State
\* ------------------------------------------------------------------------
VARIABLES
    serverless,   \* the account is a serverless account
    db,           \* the database: "absent", "manual", "autoscale", "no_offer"
    containers,   \* names of the containers of the database
    items,        \* documents of the container self.container_name
    op,           \* the last public method called
    arg,          \* its arguments
    ret,          \* what it handed back: a value or a raised exception
    failed,       \* positions of the last insert batch the backend rejected
    status,       \* HTTP status of the last item/container request
    events,       \* client-handle events of the last call: open, call, close
    rel           \* how the last call relates to the one before it

vars == <<serverless, db, containers, items, op, arg, ret, failed, status, events, rel>>

container_name == "mem0"
Names == {container_name, "other"}

\* ------------------------------------------------------------------------
\* _check_database
\* ------------------------------------------------------------------------
\* returns (is_autoscale, throughput_max) and the database it leaves behind
_check_database(sl, d) ==
    IF d = "absent"
    THEN IF sl
         THEN [is_autoscale |-> FALSE, throughput_max |-> -1, db |-> "absent"]
         ELSE [is_autoscale |-> FALSE, throughput_max |-> 400, db |-> "manual"]
    ELSE IF d = "autoscale"
         THEN [is_autoscale |-> TRUE, throughput_max |-> 1000, db |-> d]
    ELSE IF d = "manual"
         THEN [is_autoscale |-> FALSE, throughput_max |-> 400, db |-> d]
    ELSE [is_autoscale |-> FALSE, throughput_max |-> -1, db |-> d]

CheckEvents == <<"open", "call", "call", "close">>

Relation(newOp, newArg) ==
    IF newOp = op /\ newArg = arg
    THEN (IF op = "insert" /\ failed = {} THEN "repeat_accepted" ELSE "repeat")
    ELSE IF newOp = "get" /\ op = "insert" /\ Len(arg) = 1 /\ failed = {}
            /\ arg[1].id = newArg THEN "after_insert"
    ELSE "other"

Reachable == db # "absent" /\ container_name \in containers

Init ==
    /\ serverless \in BOOLEAN
    /\ \E d0 \in {"absent", "manual", "autoscale", "no_offer"} :
          /\ (serverless => d0 \in {"absent", "no_offer"})
          /\ db = _check_database(serverless, d0).db
          /\ containers \in (IF db = "absent" THEN {{}} ELSE {{}, {container_name}})
    /\ items = {}
    /\ op = "__init__"
    /\ arg = << >>
    /\ ret = ReturnNone
    /\ failed = {}
    /\ status = 200
    /\ events = CheckEvents
    /\ rel = "other"

\* ------------------------------------------------------------------------
\* insert
\* ------------------------------------------------------------------------
Records == [id : Ids, vector : Vectors, payload : Payloads]

\* ids, vectors and payloads are positionally aligned sequences of one length;
\* the ids of one batch are distinct
Batches ==
    { b \in UNION { [1..n -> Records] : n \in 1..MaxBatch } :
        \A i, j \in 1..Len(b) : b[i].id = b[j].id => i = j }

\* the loop over documents: upsert each one the backend accepts
RECURSIVE InsertLoop(_, _, _, _)
InsertLoop(its, batch, bad, i) ==
    IF i > Len(batch) THEN its
    ELSE InsertLoop(
            IF i \in bad THEN its
            ELSE UpsertItem(its, _generate_document(batch[i].vector, batch[i].payload, batch[i].id)),
            batch, bad, i + 1)

\* the local list `results`: the backend's result, or None where it failed
InsertResults(batch, bad) ==
    [i \in 1..Len(batch) |->
        IF i \in bad THEN PyNone
        ELSE _generate_document(batch[i].vector, batch[i].payload, batch[i].id)]

\* what insert hands back: the method has no return statement
InsertReturn(results) == ReturnNone

RECURSIVE Calls(_)
Calls(n) == IF n = 0 THEN << >> ELSE <<"call">> \o Calls(n - 1)

insert(batch, bad) ==
    /\ (~Reachable => bad = 1..Len(batch))
    /\ items' = InsertLoop(items, batch, bad, 1)
    /\ op' = "insert"
    /\ arg' = batch
    /\ ret' = InsertReturn(InsertResults(batch, bad))
    /\ failed' = bad
    /\ status' = IF ~Reachable THEN 404 ELSE IF Len(batch) \in bad THEN 500 ELSE 200
    /\ events' = <<"open">> \o Calls(Len(batch)) \o <<"close">>
    /\ rel' = Relation("insert", batch)
    /\ UNCHANGED <<serverless, db, containers>>

\* ------------------------------------------------------------------------
\* search
\* ------------------------------------------------------------------------
\* a query text: top = 0 is a query without a TOP clause
Queries == [top : 0..MaxLimit]

Prefix(seq, n) == IF Len(seq) <= n THEN seq ELSE SubSeq(seq, 1, n)

\* the documents the query selects
QueryMatches(its, query) ==
    IF query.top = 0 THEN SeqOf(its) ELSE Prefix(SeqOf(its), query.top)

\* container.query_items(max_item_count=n): the matches, n to a page
RECURSIVE Pages(_, _)
Pages(seq, n) ==
    IF Len(seq) <= n THEN <<seq>>
    ELSE <<SubSeq(seq, 1, n)>> \o Pages(SubSeq(seq, n + 1, Len(seq)), n)

\* list(pager): every page, one after the other
RECURSIVE Drain(_)
Drain(pages) == IF pages = << >> THEN << >> ELSE Head(pages) \o Drain(Tail(pages))

query_items(its, query, max_item_count) == Pages(QueryMatches(its, query), max_item_count)

\* result["payload"] raises KeyError on a document without payload
SearchReturn(docs) ==
    IF \E i \in 1..Len(docs) : "payload" \notin DOMAIN docs[i]
    THEN Raise("KeyError")
    ELSE Return("list",
            [i \in 1..Len(docs) |->
                OutputData(docs[i]["id"], 0, json_loads(extract_json(docs[i]["payload"])))])

search(query, limit) ==
    /\ op' = "search"
    /\ arg' = [query |-> query, limit |-> limit]
    /\ IF Reachable
       THEN /\ ret' = SearchReturn(Drain(query_items(items, query, limit)))
            /\ status' = 200
            /\ events' = <<"open">> \o Calls(Len(query_items(items, query, limit))) \o <<"close">>
       ELSE /\ ret' = Raise("CosmosResourceNotFoundError")
            /\ status' = 404
            /\ events' = <<"open", "call", "close">>
    /\ failed' = {}
    /\ rel' = Relation("search", arg')
    /\ UNCHANGED <<serverless, db, containers, items>>

\* ------------------------------------------------------------------------
\* delete
\* ------------------------------------------------------------------------
\* status of container.delete_item: 404 when there is no such item, 500 for a
\* backend fault, 204 when the item was removed
DeleteStatus(its, id, fault) ==
    IF ~Reachable \/ id \notin ItemIds(its) THEN 404
    ELSE IF fault THEN 500 ELSE 204

\* variant: the NotFound error is handed on to the caller
DeleteReturnRaising(st) ==
    IF st = 404 THEN Raise("CosmosResourceNotFoundError") ELSE ReturnNone

\* except CosmosHttpResponseError: log on 404; nothing is re-raised
DeleteReturn(st) == ReturnNone

delete(vector_id, fault) ==
    /\ op' = "delete"
    /\ arg' = vector_id
    /\ status' = DeleteStatus(items, vector_id, fault)
    /\ items' = IF status' = 204 THEN DeleteItem(items, vector_id) ELSE items
    /\ ret' = DeleteReturn(status')
    /\ events' = <<"open", "call", "close">>
    /\ failed' = {}
    /\ rel' = Relation("delete", vector_id)
    /\ UNCHANGED <<serverless, db, containers>>

\* ------------------------------------------------------------------------
\* update
\* ------------------------------------------------------------------------
update(vector_id, vector, payload) ==
    /\ op' = "update"
    /\ arg' = [id |-> vector_id, vector |-> vector, payload |-> payload]
    /\ IF ~Reachable
       THEN /\ status' = 404
            /\ ret' = Raise("CosmosResourceNotFoundError")
            /\ UNCHANGED items
       ELSE /\ status' = 200
            /\ ret' = ReturnNone
            /\ items' = UpsertItem(items, UpdateDocument(vector_id, vector, payload))
    /\ events' = <<"open", "call", "close">>
    /\ failed' = {}
    /\ rel' = Relation("update", arg')
    /\ UNCHANGED <<serverless, db, containers>>

\* ------------------------------------------------------------------------
\* get
\* ------------------------------------------------------------------------
GetReturn(document) ==
    IF "payload" \notin DOMAIN document THEN Raise("KeyError")
    ELSE Return("OutputData",
            OutputData(document["id"], "None", json_loads(extract_json(document["payload"]))))

get(vector_id) ==
    /\ op' = "get"
    /\ arg' = vector_id
    /\ IF Reachable /\ vector_id \in ItemIds(items)
       THEN /\ status' = 200
            /\ ret' = GetReturn(ReadItem(items, vector_id))
       ELSE /\ status' = 404
            /\ ret' = Raise("CosmosResourceNotFoundError")
    /\ events' = <<"open", "call", "close">>
    /\ failed' = {}
    /\ rel' = Relation("get", vector_id)
    /\ UNCHANGED <<serverless, db, containers, items>>

\* ------------------------------------------------------------------------
\* list
\* ------------------------------------------------------------------------
\* json.loads(extract_json(...)), or the raw stored value when that raises
ListPayload(text) ==
    IF IsJsonObject(extract_json(text)) THEN json_loads(extract_json(text)) ELSE text

\* the loop: a document is appended inside `if "payload" in document`
RECURSIVE ListResults(_)
ListResults(documents) ==
    IF documents = << >> THEN << >>
    ELSE (IF "payload" \in DOMAIN Head(documents)
          THEN << OutputData(Head(documents)["id"], "None",
                             ListPayload(Head(documents)["payload"])) >>
          ELSE << >>)
         \o ListResults(Tail(documents))

\* what list() hands back in the current state: read_all_items raises
\* NotFound when the container is missing
ListReturn ==
    IF Reachable THEN Return("list", ListResults(SeqOf(items)))
    ELSE Raise("CosmosResourceNotFoundError")

list ==
    /\ op' = "list"
    /\ arg' = << >>
    /\ ret' = ListReturn
    /\ status' = IF Reachable THEN 200 ELSE 404
    /\ events' = <<"open", "call", "close">>
    /\ failed' = {}
    /\ rel' = Relation("list", << >>)
    /\ UNCHANGED <<serverless, db, containers, items>>

\* ------------------------------------------------------------------------
\* list_cols, col_info: the request is sent after the `with` block
\* ------------------------------------------------------------------------
\* a request through a client that was closed: it may still be served, or fail
ClosedClientOutcomes(served) == { served, Raise("ClosedClientError") }

list_cols ==
    /\ op' = "list_cols"
    /\ arg' = << >>
    /\ events' = <<"open", "close", "call">>
    /\ IF db = "absent"
       THEN ret' = Raise("CosmosResourceNotFoundError")
       ELSE ret' \in ClosedClientOutcomes(Return("list", SeqOf(containers)))
    /\ status' = IF db = "absent" THEN 404 ELSE 200
    /\ failed' = {}
    /\ rel' = Relation("list_cols", << >>)
    /\ UNCHANGED <<serverless, db, containers, items>>

col_info ==
    /\ op' = "col_info"
    /\ arg' = << >>
    /\ events' = <<"open", "close", "call">>
    /\ IF Reachable
       THEN ret' \in ClosedClientOutcomes(
                        Return("dict", [id |-> container_name, throughput |-> PyNone]))
       ELSE ret' = Raise("CosmosResourceNotFoundError")
    /\ status' = IF Reachable THEN 200 ELSE 404
    /\ failed' = {}
    /\ rel' = Relation("col_info", << >>)
    /\ UNCHANGED <<serverless, db, containers, items>>

\* ------------------------------------------------------------------------
\* delete_col, create_col, reset
\* ------------------------------------------------------------------------
delete_col ==
    /\ op' = "delete_col"
    /\ arg' = << >>
    /\ IF Reachable
       THEN /\ containers' = containers \ {container_name}
            /\ items' = {}
            /\ status' = 204
            /\ ret' = ReturnNone
       ELSE /\ status' = 404
            /\ ret' = Raise("CosmosResourceNotFoundError")
            /\ UNCHANGED <<containers, items>>
    /\ events' = <<"open", "call", "close">>
    /\ failed' = {}
    /\ rel' = Relation("delete_col", << >>)
    /\ UNCHANGED <<serverless, db>>

\* the outcome of create_col(name) on the containers cs: which containers
\* exist afterwards, what the call hands back, and its handle events
CreateCol(name, cs, fault) ==
    LET chk == _check_database(serverless, db) IN
    IF chk.throughput_max = -1
    THEN [containers |-> cs, ret |-> ReturnNone, status |-> 200, events |-> CheckEvents]
    ELSE IF fault
    THEN [containers |-> cs, ret |-> Raise("CosmosHttpResponseError"), status |-> 500,
          events |-> CheckEvents \o <<"open", "call", "close">>]
    ELSE [containers |-> cs \cup {name}, ret |-> ReturnNone,
          status |-> (IF name \in cs THEN 200 ELSE 201),
          events |-> CheckEvents \o <<"open", "call", "close">>]

create_col(name, fault) ==
    LET out == CreateCol(name, containers, fault) IN
    /\ op' = "create_col"
    /\ arg' = name
    /\ containers' = out.containers
    /\ ret' = out.ret
    /\ status' = out.status
    /\ events' = out.events
    /\ failed' = {}
    /\ rel' = Relation("create_col", name)
    /\ UNCHANGED <<serverless, db, items>>

reset(fault) ==
    /\ op' = "reset"
    /\ arg' = << >>
    /\ IF Reachable
       THEN LET out == CreateCol(container_name, containers \ {container_name}, fault) IN
            /\ containers' = out.containers
            /\ items' = {}
            /\ ret' = out.ret
            /\ status' = out.status
            /\ events' = <<"open", "call", "close">> \o out.events
       ELSE /\ ret' = Raise("CosmosResourceNotFoundError")
            /\ status' = 404
            /\ events' = <<"open", "call", "close">>
            /\ UNCHANGED <<containers, items>>
    /\ failed' = {}
    /\ rel' = Relation("reset", << >>)
    /\ UNCHANGED <<serverless, db>>

Next ==
    \/ \E batch \in Batches : \E bad \in SUBSET (1..Len(batch)) : insert(batch, bad)
    \/ \E query \in Queries : \E limit \in 1..MaxLimit : search(query, limit)
    \/ \E id \in Ids : \E fault \in BOOLEAN : delete(id, fault)
    \/ \E id \in Ids : \E vector \in Vectors \cup {NoVector} :
          \E payload \in Payloads \cup {PyNone} : update(id, vector, payload)
    \/ \E id \in Ids : get(id)
    \/ list
    \/ list_cols
    \/ col_info
    \/ delete_col
    \/ \E name \in Names : \E fault \in BOOLEAN : create_col(name, fault)
    \/ \E fault \in BOOLEAN : reset(fault)

Spec == Init /\ [][Next]_vars

\* ------------------------------------------------------------------------
\* Properties
\* ------------------------------------------------------------------------
RecordDoc(r) == _generate_document(r.vector, r.payload, r.id)
PromotedSet == { PromotedFields[i] : i \in 1..Len(PromotedFields) }
Raised == ret.kind = "raise"

\* C1: an insert repeated with the identical (id, vector, payload), both times
\* accepted by the backend, leaves exactly one record with that id, holding
\* that payload, and leaves the collection as the first insert left it.
C1_InsertIdempotent ==
    [][ (op = "insert" /\ failed = {} /\ op' = "insert" /\ arg' = arg /\ failed' = {})
        => /\ items' = items
           /\ \A i \in 1..Len(arg') :
                LET ds == { d \in items' : d["id"] = arg'[i].id } IN
                /\ Cardinality(ds) = 1
                /\ \A d \in ds : json_loads(extract_json(d["payload"])) = arg'[i].payload
      ]_vars

\* the second of two identical accepted inserts, over a non-empty collection
C1_Witness ==
    /\ op = "insert"
    /\ rel = "repeat_accepted"
    /\ failed = {}
    /\ Cardinality(items) > Len(arg)

\* C2: insert hands back one entry per input position, in input order: null
\* exactly where the backend rejected the upsert, the backend's result
\* elsewhere; and the records the backend accepted are stored.
C2_InsertReturnsResults ==
    op = "insert" =>
        /\ ret.kind = "list"
        /\ Len(ret.val) = Len(arg)
        /\ \A i \in 1..Len(arg) :
              /\ (ret.val[i] = PyNone) <=> (i \in failed)
              /\ i \notin failed => ret.val[i] = RecordDoc(arg[i])
              /\ i \notin failed => RecordDoc(arg[i]) \in items

\* C3: delete of an id that is not stored returns normally and leaves the
\* stored records as they were.
C3_DeleteMissingIsNoOp ==
    [][ (op' = "delete" /\ arg' \notin ItemIds(items))
        => (status' = 404 /\ ret' = ReturnNone /\ items' = items) ]_vars

\* a second delete of the same id right after the first, answered 404
C3_Witness ==
    /\ op = "delete"
    /\ rel = "repeat"
    /\ status = 404
    /\ ret = ReturnNone
    /\ items # {}

\* C4: after reset returns normally the collection exists and is empty, so
\* that list() returns the empty sequence.
C4_ResetThenListEmpty ==
    (op = "reset" /\ ~Raised) =>
        /\ container_name \in containers
        /\ items = {}
        /\ ListReturn.kind = "list"
        /\ ListReturn.val = << >>

\* C5: list() returns exactly one OutputData per stored record, score absent.
C5_ListReturnsEveryRecord ==
    (op = "list" /\ ~Raised) =>
        /\ Len(ret.val) = Cardinality(items)
        /\ { ret.val[i].id : i \in 1..Len(ret.val) } = ItemIds(items)
        /\ \A i \in 1..Len(ret.val) : ret.val[i].score = "None"

C7_CreateColCreatesOrRaises ==
    op = "create_col" => (Raised \/ arg \in containers)

\* C8: search(limit = k) returns at most k results, best score first.
C8_SearchAtMostLimit ==
    (op = "search" /\ ~Raised) =>
        /\ Len(ret.val) <= arg.limit
        /\ \A i, j \in 1..Len(ret.val) : i < j => ret.val[i].score >= ret.val[j].score

\* C9: every stored record has a promoted top-level field exactly when the
\* key is in its stored payload, with the same value.
StoredPayload(d) ==
    IF "payload" \in DOMAIN d THEN json_loads(extract_json(d["payload"])) ELSE EmptyDict

C9_PromotedFieldsMirrorPayload ==
    \A d \in items : \A f \in PromotedSet :
        /\ (f \in DOMAIN d) <=> (f \in DOMAIN StoredPayload(d))
        /\ (f \in DOMAIN d) => d[f] = StoredPayload(d)[f]

\* number of handles held after the first n events of a call
RECURSIVE Held(_, _)
Held(ev, n) ==
    IF n = 0 THEN 0
    ELSE Held(ev, n - 1)
         + (IF ev[n] = "open" THEN 1 ELSE IF ev[n] = "close" THEN -1 ELSE 0)

\* C10: every backend request of a call is made while a handle is held, and no
\* handle is held when the call is over.
C10_RequestsInsideHandle ==
    /\ \A n \in 1..Len(events) : events[n] = "call" => Held(events, n) > 0
    /\ Held(events, Len(events)) = 0

====
